---------------------------- MODULE Spec2Model ----------------------------
(***************************************************************************)
(* State-machine model of the two React components of SensAI's scheduling  *)
(* front end:                                                              *)
(*                                                                         *)
(*   CourseScheduler    the calendar / scheduling form (calendar/page.tsx) *)
(*   SavedScheduleCard  the saved-schedule viewer card (part_001)          *)
(*                                                                         *)
(* A variable is a useState cell, a prop, a request in flight or the       *)
(* browser's clock.  An action is one event handler together with the      *)
(* effects React runs for it before the next event is dispatched, or the   *)
(* continuation of an awaited fetch.  The two components share no state    *)
(* and live on different pages, so a behaviour mounts one of them.         *)
(*                                                                         *)
(* Dates are yyyy-MM-dd strings in the code; they are modelled as day      *)
(* numbers, whose order is the lexicographic order of the strings.         *)
(***************************************************************************)
EXTENDS Integers, Sequences, FiniteSets, TLC

(***************************************************************************)
(* Bounds of the model.                                                    *)
(***************************************************************************)
\* calendar dates 1..MaxDate occur in responses and on the clock
MaxDate == 3
\* a response carries at most MaxDays days
MaxDays == 2
\* SavedScheduleCard: at most MaxLoads GET requests are outstanding at once
MaxLoads == 2
\* CourseScheduler: the calendar is turned at most MaxMonths months away
\* from the month of mount
MaxMonths == 1

\* Date.now() + 86400000 (part_001:157), in hours
DayMs == 24

Dates == 1..MaxDate
Summaries == {"a"}
\* ScheduleDay: the date and what distinguishes two days of the same date
Day == [date : Dates, summary : Summaries]
\* weekday indices the user toggles: Sunday, a working day, Saturday
ToggledWeekdays == {0, 1, 6}
\* values of the courseId prop of SavedScheduleCard
Courses == {1, 2}
\* schedule.timezone of a response that carries a schedule
RespTimezones == {"Asia/Kolkata"}

\* the empty string of a date input
NoDate == 0
\* the calendar cells and date inputs the user works with
ClickedDates == {1, 2}
\* what the user types into the start date, hours/day and days/week inputs
StartDateInputs == {NoDate, 2}
HoursInputs == {2, 3}
DaysPerWeekInputs == {5, 7}
\* two of the six options of the timezone select
Timezones == {"UTC", "Asia/Kolkata"}

VARIABLES
    \* ---- CourseScheduler
    schedMounted,     \* the component's mount effects have run
    hasCourseId,      \* params?.courseId is a non-empty string
    includeWeekends,
    excludeWeekdays,  \* number[]: a sequence
    isLoading,
    isSaving,
    scheduledTasks,   \* ProcessedSchedule: a function date -> ScheduleDay
    pending,          \* the fetches of CourseScheduler that are outstanding:
                      \* how many generate calls, how many persist calls
    currentDate,      \* the displayed month, counted from the month of mount
    startDate,        \* a date, or NoDate for ''
    excludeDates,     \* string[]: a sequence
    hoursPerDay,
    daysPerWeek,
    formTimezone,     \* CourseScheduler's `timezone`
    \* ---- SavedScheduleCard
    cardMounted,
    courseId,         \* the prop
    days,
    timezone,
    currentIndex,     \* 0-based, as in the code
    cardIsLoading,
    loads,            \* the outstanding GET requests: how many there are
                      \* for each courseId
    \* ---- the browser's clock and time zone
    now,              \* [date, hour]: local calendar date and hour of day
    \* ---- history
    lastEvent,        \* the event that produced this state
    shownBefore       \* scheduledTasks as displayed when the outstanding
                      \* generate call was started

draftVars == <<currentDate, startDate, excludeDates, hoursPerDay, daysPerWeek,
               formTimezone>>
schedVars == <<schedMounted, hasCourseId, includeWeekends, excludeWeekdays,
               isLoading, isSaving, scheduledTasks, pending, draftVars>>
cardVars == <<cardMounted, courseId, days, timezone, currentIndex,
              cardIsLoading, loads>>
clockVars == <<now>>
vars == <<schedVars, cardVars, clockVars, lastEvent, shownBefore>>

(***************************************************************************)
(* Array helpers, as JavaScript computes them.                             *)
(***************************************************************************)
\* Array.prototype.includes
Includes(s, x) == \E i \in DOMAIN s : s[i] = x

\* prev.filter(d => d !== x)
Without(s, x) == SelectSeq(s, LAMBDA d : d # x)

\* [...new Set(s)]: the first occurrence of each element, in order
RECURSIVE SetOrder(_)
SetOrder(s) ==
    IF s = <<>> THEN <<>>
    ELSE LET init == SetOrder(SubSeq(s, 1, Len(s) - 1))
             last == s[Len(s)]
         IN  IF Includes(init, last) THEN init ELSE Append(init, last)

\* Math.max(a, b)
Max(a, b) == IF a >= b THEN a ELSE b

\* fetchedDays.findIndex(d => d.date === x): 0-based, -1 if there is none
FindDateEq(s, x) ==
    IF \E i \in DOMAIN s : s[i].date = x
    THEN (CHOOSE i \in DOMAIN s :
              s[i].date = x /\ \A j \in 1..(i - 1) : s[j].date # x) - 1
    ELSE -1

\* fetchedDays.findIndex(d => d.date > x)
FindDateAfter(s, x) ==
    IF \E i \in DOMAIN s : s[i].date > x
    THEN (CHOOSE i \in DOMAIN s :
              s[i].date > x /\ \A j \in 1..(i - 1) : ~(s[j].date > x)) - 1
    ELSE -1

\* insertion of d after the entries whose date is not greater (stable)
RECURSIVE InsertByDate(_, _)
InsertByDate(s, d) ==
    IF s = <<>> THEN <<d>>
    ELSE IF s[Len(s)].date <= d.date THEN Append(s, d)
    ELSE Append(InsertByDate(SubSeq(s, 1, Len(s) - 1), d), s[Len(s)])

\* .slice().sort((a, b) => a.date.localeCompare(b.date)): a stable sort
RECURSIVE SortByDate(_)
SortByDate(s) ==
    IF s = <<>> THEN <<>>
    ELSE InsertByDate(SortByDate(SubSeq(s, 1, Len(s) - 1)), s[Len(s)])

\* .reduce((acc, day) => { acc[day.date] = day; return acc; }, {})
RECURSIVE ScheduleMap(_)
ScheduleMap(s) ==
    IF s = <<>> THEN <<>>
    ELSE LET acc == ScheduleMap(SubSeq(s, 1, Len(s) - 1))
             day == s[Len(s)]
         IN  [k \in (DOMAIN acc) \cup {day.date} |->
                 IF k = day.date THEN day ELSE acc[k]]

EmptySchedule == ScheduleMap(<<>>)


(***************************************************************************)
(* The backend's answers.  A fetch rejects, or resolves with a non-2xx     *)
(* status, or resolves 2xx with a body.  A body without `schedule` reads   *)
(* as days <<>> and timezone "" (data.schedule?.days || [],                *)
(* data.schedule?.timezone || "UTC").                                      *)
(***************************************************************************)
DayLists == UNION {[1..n -> Day] : n \in 0..MaxDays}
FailResponses ==
    [outcome : {"reject", "error"}, days : {<<>>}, timezone : {""}]
NoSchedule == [outcome |-> "ok", days |-> <<>>, timezone |-> ""]
OkResponses ==
    {NoSchedule} \cup
    [outcome : {"ok"}, days : DayLists, timezone : RespTimezones]
Responses == FailResponses \cup OkResponses

(***************************************************************************)
(* The clock.  Local days have 24 hours, except the day the clocks go      *)
(* back (25) and the day they go forward (23).                             *)
(***************************************************************************)
DayHours(d) == IF d = 2 THEN 25 ELSE IF d = 4 THEN 23 ELSE 24
\* the hours of day at which the model reads the clock
ClockHours == {0, 23}
Instants == [date : Dates, hour : ClockHours]
Earlier(a, b) == a.date < b.date \/ (a.date = b.date /\ a.hour < b.hour)

\* format(new Date(), "yyyy-MM-dd"): the local calendar date
TodayStr == now.date

\* the local date `hours` hours after 00:00 of `date`
RECURSIVE DateAtOffset(_, _)
DateAtOffset(date, hours) ==
    IF hours < DayHours(date) THEN date
    ELSE DateAtOffset(date + 1, hours - DayHours(date))

\* format(new Date(Date.now() + 86400000), "yyyy-MM-dd")
TomorrowStr == DateAtOffset(now.date, now.hour + DayMs)

(***************************************************************************)
(* History: the event that produced the state.  lastEvent and shownBefore  *)
(* record what happened; no action reads them.                             *)
(***************************************************************************)
\* op: the handler or continuation that ran; outcome, days: the response it
\* handled; stale: the request that settled was overlapped (CourseScheduler:
\* the other call was outstanding) or superseded (SavedScheduleCard: it was
\* issued for a courseId that is no longer the prop's value); before: for a
\* failed generate
\* call, scheduledTasks as displayed when the call was started; day: the
\* weekday button that was clicked; request: the request that was sent, if
\* one was
Event(op, outcome, resp, stale, before) ==
    [op |-> op, outcome |-> outcome, days |-> resp, stale |-> stale,
     before |-> before, day |-> -1, request |-> <<>>]
Plain(op) == Event(op, "", <<>>, FALSE, <<>>)
WeekdayEvent(dayIndex) == [Plain("toggleWeekday") EXCEPT !.day = dayIndex]
RequestEvent(op, request) == [Plain(op) EXCEPT !.request = <<request>>]

\* The useState initial values of both components, before either is mounted.
\* The route parameter and the courseId prop are read by the first render
\* (SchedMount, CardMount).
Init ==
    /\ schedMounted = FALSE
    /\ hasCourseId = FALSE
    /\ includeWeekends = FALSE
    /\ excludeWeekdays = <<0, 6>>
    /\ isLoading = FALSE
    /\ isSaving = FALSE
    /\ scheduledTasks = EmptySchedule
    /\ pending = [k \in {"generate", "persist"} |-> 0]
    /\ currentDate = 0
    /\ startDate = NoDate
    /\ excludeDates = <<>>
    /\ hoursPerDay = 2
    /\ daysPerWeek = 5
    /\ formTimezone = "UTC"
    /\ cardMounted = FALSE
    /\ courseId = 1
    /\ days = <<>>
    /\ timezone = "UTC"
    /\ currentIndex = 0
    /\ cardIsLoading = FALSE
    /\ loads = [c \in Courses |-> 0]
    /\ now = [date |-> 1, hour |-> 0]
    /\ lastEvent = Plain("init")
    /\ shownBefore = EmptySchedule

(***************************************************************************)
(* CourseScheduler                                                         *)
(***************************************************************************)
\* an effect that appends 0 and 6 without `new Set`
WeekendsEffectAppend(iw, ex) ==
    IF iw THEN SelectSeq(ex, LAMBDA d : d # 0 /\ d # 6)
    ELSE ex \o <<0, 6>>

\* useEffect(..., [startDate]): an empty start date becomes today's date
StartDateEffect(sd) == IF sd = NoDate THEN TodayStr ELSE sd

\* useEffect(..., [includeWeekends])
WeekendsEffect(iw, ex) ==
    IF iw THEN SelectSeq(ex, LAMBDA d : d # 0 /\ d # 6)
    ELSE SetOrder(ex \o <<0, 6>>)

\* the effects of the first render
SchedMount ==
    /\ ~schedMounted /\ ~cardMounted
    /\ schedMounted' = TRUE
    /\ hasCourseId' \in BOOLEAN
    /\ excludeWeekdays' = WeekendsEffect(includeWeekends, excludeWeekdays)
    /\ startDate' = StartDateEffect(startDate)
    /\ lastEvent' = Plain("mount")
    /\ UNCHANGED <<includeWeekends, isLoading, isSaving, scheduledTasks,
                   pending, currentDate, excludeDates, hoursPerDay,
                   daysPerWeek, formTimezone, cardVars, clockVars,
                   shownBefore>>

\* the Include Weekends switch: setIncludeWeekends(!includeWeekends), then
\* the effect on includeWeekends
ToggleIncludeWeekends ==
    /\ schedMounted
    /\ includeWeekends' = ~includeWeekends
    /\ excludeWeekdays' = WeekendsEffect(~includeWeekends, excludeWeekdays)
    /\ lastEvent' = Plain("toggleWeekends")
    /\ UNCHANGED <<schedMounted, hasCourseId, isLoading, isSaving,
                   scheduledTasks, pending, draftVars, cardVars, clockVars,
                   shownBefore>>

\* a handler that couples the switch to the weekend buttons both ways
WeekdayToggleIncludeBothWays(iw, ex, dayIndex) ==
    IF dayIndex = 0 \/ dayIndex = 6 THEN Includes(ex, dayIndex) ELSE iw

\* handleWeekdayToggle: the value it leaves in includeWeekends
WeekdayToggleInclude(iw, ex, dayIndex) ==
    IF Includes(ex, dayIndex) /\ (dayIndex = 0 \/ dayIndex = 6) THEN TRUE
    ELSE iw

\* an updater that excludes the clicked day in place of the others
WeekdayToggleExcludeAlone(ex, dayIndex) ==
    IF Includes(ex, dayIndex) THEN Without(ex, dayIndex)
    ELSE <<dayIndex>>

\* handleWeekdayToggle: the updater of excludeWeekdays
WeekdayToggleExclude(ex, dayIndex) ==
    IF Includes(ex, dayIndex) THEN Without(ex, dayIndex)
    ELSE Append(ex, dayIndex)

\* handleWeekdayToggle, then the effect if includeWeekends changed
HandleWeekdayToggle(dayIndex) ==
    /\ schedMounted
    /\ LET iw == WeekdayToggleInclude(includeWeekends, excludeWeekdays, dayIndex)
           ex == WeekdayToggleExclude(excludeWeekdays, dayIndex)
       IN  /\ includeWeekends' = iw
           /\ excludeWeekdays' =
                  IF iw # includeWeekends THEN WeekendsEffect(iw, ex) ELSE ex
    /\ lastEvent' = WeekdayEvent(dayIndex)
    /\ UNCHANGED <<schedMounted, hasCourseId, isLoading, isSaving,
                   scheduledTasks, pending, draftVars, cardVars, clockVars,
                   shownBefore>>

\* handlePrevMonth, handleNextMonth
HandlePrevMonth ==
    /\ schedMounted /\ currentDate > -MaxMonths
    /\ currentDate' = currentDate - 1
    /\ lastEvent' = Plain("prevMonth")
    /\ UNCHANGED <<schedMounted, hasCourseId, includeWeekends, excludeWeekdays,
                   isLoading, isSaving, scheduledTasks, pending, startDate,
                   excludeDates, hoursPerDay, daysPerWeek, formTimezone,
                   cardVars, clockVars, shownBefore>>

HandleNextMonth ==
    /\ schedMounted /\ currentDate < MaxMonths
    /\ currentDate' = currentDate + 1
    /\ lastEvent' = Plain("nextMonth")
    /\ UNCHANGED <<schedMounted, hasCourseId, includeWeekends, excludeWeekdays,
                   isLoading, isSaving, scheduledTasks, pending, startDate,
                   excludeDates, hoursPerDay, daysPerWeek, formTimezone,
                   cardVars, clockVars, shownBefore>>

\* a date click that takes the clicked day out of the displayed schedule
DateClickDropsDay(tasks, dateStr) ==
    [d \in DOMAIN tasks \ {dateStr} |-> tasks[d]]

\* handleDateClick, handleAddExcludedDate, removeExcludedDate: what they
\* leave in scheduledTasks (none of them calls setScheduledTasks)
DateClickTasks(tasks, dateStr) == tasks

\* one of the three handlers of excludeDates
ExcludeDatesEdit(op, dateStr, dates) ==
    /\ schedMounted
    /\ excludeDates' = dates
    /\ scheduledTasks' = DateClickTasks(scheduledTasks, dateStr)
    /\ lastEvent' = Plain(op)
    /\ UNCHANGED <<schedMounted, hasCourseId, includeWeekends, excludeWeekdays,
                   isLoading, isSaving, pending, currentDate, startDate,
                   hoursPerDay, daysPerWeek, formTimezone, cardVars,
                   clockVars, shownBefore>>

\* handleDateClick: a click on a cell of the calendar
HandleDateClick(dateStr) ==
    ExcludeDatesEdit("dateClick", dateStr,
                     IF Includes(excludeDates, dateStr)
                     THEN Without(excludeDates, dateStr)
                     ELSE Append(excludeDates, dateStr))

\* handleAddExcludedDate: a change of the "Exclude Specific Dates" input
HandleAddExcludedDate(dateStr) ==
    ExcludeDatesEdit("addExcludedDate", dateStr,
                     IF dateStr # NoDate /\ ~Includes(excludeDates, dateStr)
                     THEN Append(excludeDates, dateStr)
                     ELSE excludeDates)

\* removeExcludedDate: the X of a listed date
RemoveExcludedDate(dateToRemove) ==
    /\ Includes(excludeDates, dateToRemove)
    /\ ExcludeDatesEdit("removeExcludedDate", dateToRemove,
                        Without(excludeDates, dateToRemove))

\* the onChange of the start date, hours/day, days/week and timezone inputs
FieldEdit(op, sd, hours, perWeek, tz) ==
    /\ schedMounted
    /\ startDate' = sd
    /\ hoursPerDay' = hours
    /\ daysPerWeek' = perWeek
    /\ formTimezone' = tz
    /\ lastEvent' = Plain(op)
    /\ UNCHANGED <<schedMounted, hasCourseId, includeWeekends, excludeWeekdays,
                   isLoading, isSaving, scheduledTasks, pending, currentDate,
                   excludeDates, cardVars, clockVars, shownBefore>>

\* setStartDate(e.target.value), then the effect on startDate
SetStartDate(value) ==
    FieldEdit("startDate", StartDateEffect(value), hoursPerDay, daysPerWeek,
              formTimezone)
\* setHoursPerDay(Number(e.target.value))
SetHoursPerDay(value) ==
    FieldEdit("hoursPerDay", startDate, value, daysPerWeek, formTimezone)
\* setDaysPerWeek(Number(e.target.value))
SetDaysPerWeek(value) ==
    FieldEdit("daysPerWeek", startDate, hoursPerDay, value, formTimezone)
\* setTimezone(e.target.value)
SetTimezone(value) ==
    FieldEdit("timezone", startDate, hoursPerDay, daysPerWeek, value)

\* what handleSubmit puts in scheduledTasks before it awaits the fetch
SubmitCleared(tasks) == EmptySchedule

\* a submit button that stays enabled during a generate call
SubmitAlwaysEnabled == TRUE

\* <Button type="submit" disabled={isLoading}>
SubmitEnabled == ~isLoading
\* <button onClick={handlePersist} disabled={isSaving}>
PersistEnabled == ~isSaving

\* requestBody of handleSubmit; `startDate || undefined` leaves start_date
\* out when startDate is empty: a field is the sequence of its values
RequestBody ==
    [start_date |-> IF startDate = NoDate THEN <<>> ELSE <<startDate>>,
     include_weekends |-> <<includeWeekends>>,
     exclude_weekdays |-> <<excludeWeekdays>>,
     exclude_dates |-> <<excludeDates>>,
     hours_per_day |-> <<hoursPerDay>>,
     days_per_week |-> <<daysPerWeek>>,
     timezone |-> <<formTimezone>>]

\* the request of handleSubmit: POST .../schedule with the JSON body
SubmitRequest == [persist |-> FALSE, body |-> <<RequestBody>>]

\* the request of handlePersist: POST .../schedule?persist=true, no body
PersistRequest == [persist |-> TRUE, body |-> <<>>]

\* handleSubmit up to its await
HandleSubmit ==
    /\ schedMounted /\ hasCourseId /\ SubmitEnabled
    /\ isLoading' = TRUE
    /\ scheduledTasks' = SubmitCleared(scheduledTasks)
    /\ pending' = [pending EXCEPT !["generate"] = @ + 1]
    /\ shownBefore' = scheduledTasks
    /\ lastEvent' = RequestEvent("submit", SubmitRequest)
    /\ UNCHANGED <<schedMounted, hasCourseId, includeWeekends, excludeWeekdays,
                   isSaving, draftVars, cardVars, clockVars>>

\* a continuation that drops the response of an overlapped or superseded
\* request
StoresIfCurrent(resp, stale) == resp.outcome = "ok" /\ ~stale

\* a continuation without `if (!res.ok) throw`
StoresUnlessRejected(resp, stale) == resp.outcome # "reject"

\* whether the continuation of a fetch reaches its setState calls:
\* `if (!res.ok) throw ...` and a rejected fetch skip them; nothing else does
StoresResponse(resp, stale) == resp.outcome = "ok"

\* a continuation that patches the response into the displayed index
SettledTasksPatched(tasks, resp, stale) ==
    IF resp.outcome # "ok" THEN tasks
    ELSE LET new == ScheduleMap(resp.days)
         IN  [k \in (DOMAIN tasks) \cup (DOMAIN new) |->
                 IF k \in DOMAIN new THEN new[k] ELSE tasks[k]]

\* what a settled generate or persist call leaves in scheduledTasks
SettledTasks(tasks, resp, stale) ==
    IF StoresResponse(resp, stale) THEN ScheduleMap(resp.days) ELSE tasks

\* handleSubmit from its await on: try / catch / finally
GenerateSettled(resp) ==
    /\ pending["generate"] > 0
    /\ pending' = [pending EXCEPT !["generate"] = @ - 1]
    /\ scheduledTasks' =
           SettledTasks(scheduledTasks, resp, pending["persist"] > 0)
    /\ isLoading' = FALSE
    /\ shownBefore' = EmptySchedule
    /\ lastEvent' = Event("generateSettled", resp.outcome, resp.days,
                          pending["persist"] > 0,
                          IF resp.outcome = "ok" THEN <<>> ELSE shownBefore)
    /\ UNCHANGED <<schedMounted, hasCourseId, includeWeekends, excludeWeekdays,
                   isSaving, draftVars, cardVars, clockVars>>

\* handlePersist up to its await
HandlePersist ==
    /\ schedMounted /\ hasCourseId /\ PersistEnabled
    /\ isSaving' = TRUE
    /\ pending' = [pending EXCEPT !["persist"] = @ + 1]
    /\ lastEvent' = RequestEvent("persist", PersistRequest)
    /\ UNCHANGED <<schedMounted, hasCourseId, includeWeekends, excludeWeekdays,
                   isLoading, scheduledTasks, draftVars, cardVars, clockVars,
                   shownBefore>>

\* handlePersist from its await on
PersistSettled(resp) ==
    /\ pending["persist"] > 0
    /\ pending' = [pending EXCEPT !["persist"] = @ - 1]
    /\ scheduledTasks' =
           SettledTasks(scheduledTasks, resp, pending["generate"] > 0)
    /\ isSaving' = FALSE
    /\ lastEvent' = Event("persistSettled", resp.outcome, resp.days,
                          pending["generate"] > 0, <<>>)
    /\ UNCHANGED <<schedMounted, hasCourseId, includeWeekends, excludeWeekdays,
                   isLoading, draftVars, cardVars, clockVars, shownBefore>>

(***************************************************************************)
(* SavedScheduleCard                                                       *)
(***************************************************************************)
\* the number of outstanding GET requests for the courses of S
RECURSIVE LoadCount(_)
LoadCount(S) ==
    IF S = {} THEN 0
    ELSE LET c == CHOOSE x \in S : TRUE IN loads[c] + LoadCount(S \ {c})

Outstanding == LoadCount(Courses)

\* load() up to its await: the effect on [courseId] runs it
StartLoad(c) ==
    /\ cardIsLoading' = TRUE
    /\ loads' = [loads EXCEPT ![c] = @ + 1]

\* the effect of the first render
CardMount ==
    /\ ~cardMounted /\ ~schedMounted
    /\ cardMounted' = TRUE
    /\ courseId' \in Courses
    /\ StartLoad(courseId')
    /\ lastEvent' = Plain("cardMount")
    /\ UNCHANGED <<days, timezone, currentIndex, schedVars,
                   clockVars, shownBefore>>

\* the parent renders the card with another courseId: the effect runs again
CourseIdChange(c) ==
    /\ cardMounted /\ c # courseId /\ Outstanding < MaxLoads
    /\ courseId' = c
    /\ StartLoad(c)
    /\ lastEvent' = Plain("courseIdChange")
    /\ UNCHANGED <<cardMounted, days, timezone, currentIndex, schedVars,
                   clockVars, shownBefore>>

\* a default selection without the first-upcoming fallback
DefaultIndexNoUpcoming(fetchedDays, today) ==
    Max(0, FindDateEq(fetchedDays, today))

\* a default selection without Math.max(0, idx)
DefaultIndexUnclamped(fetchedDays, today) ==
    LET idx == FindDateEq(fetchedDays, today)
    IN  IF idx = -1 THEN FindDateAfter(fetchedDays, today) ELSE idx

\* Default selection: Today if present, else first upcoming, else 0
DefaultIndex(fetchedDays, today) ==
    LET idx == FindDateEq(fetchedDays, today)
    IN  Max(0, IF idx = -1 THEN FindDateAfter(fetchedDays, today) ELSE idx)

\* a catch block that resets the day list
LoadedDaysCleared(prev, resp, stale) ==
    IF resp.outcome = "ok" THEN SortByDate(resp.days) ELSE <<>>

\* what a settled load leaves in days (the catch block sets nothing)
LoadedDays(prev, resp, stale) ==
    IF StoresResponse(resp, stale) THEN SortByDate(resp.days) ELSE prev

\* data.schedule?.timezone || "UTC"
LoadedTimezone(prev, resp, stale) ==
    IF StoresResponse(resp, stale)
    THEN (IF resp.timezone = "" THEN "UTC" ELSE resp.timezone)
    ELSE prev

\* setCurrentIndex(Math.max(0, idx))
LoadedIndex(prev, resp, stale, today) ==
    IF StoresResponse(resp, stale)
    THEN DefaultIndex(SortByDate(resp.days), today)
    ELSE prev

\* what the finally block of load() leaves in isLoading
LoadFinally(remaining) == FALSE

\* load() from its await on, for an outstanding request issued for course c
LoadSettled(c, resp) ==
    /\ loads[c] > 0
    /\ loads' = [loads EXCEPT ![c] = @ - 1]
    /\ days' = LoadedDays(days, resp, c # courseId)
    /\ timezone' = LoadedTimezone(timezone, resp, c # courseId)
    /\ currentIndex' = LoadedIndex(currentIndex, resp, c # courseId, TodayStr)
    /\ cardIsLoading' = LoadFinally(loads')
    /\ lastEvent' = Event("loadSettled", resp.outcome, resp.days,
                          c # courseId, <<>>)
    /\ UNCHANGED <<cardMounted, courseId, schedVars, clockVars, shownBefore>>

\* a Next day button that is enabled on the last day
canNextPastEnd == currentIndex < Len(days)

canPrev == currentIndex > 0
canNext == currentIndex < Max(0, Len(days) - 1)

\* onClick={() => canPrev && setCurrentIndex((i) => i - 1)}
PrevIndex(i) == IF canPrev THEN i - 1 ELSE i
\* onClick={() => canNext && setCurrentIndex((i) => i + 1)}
NextIndex(i) == IF canNext THEN i + 1 ELSE i

\* the Today button
TodayIndex(i) ==
    IF Len(days) = 0 THEN i
    ELSE LET idx == FindDateEq(days, TodayStr)
         IN  Max(0, IF idx = -1 THEN 0 ELSE idx)

\* the Tomorrow button
TomorrowIndex(i) ==
    IF Len(days) = 0 THEN i
    ELSE LET idx == FindDateEq(days, TomorrowStr)
         IN  Max(0, IF idx = -1 THEN 0 ELSE idx)

\* the Upcoming button
UpcomingIndex(i) ==
    IF Len(days) = 0 THEN i
    ELSE LET idx == FindDateAfter(days, TodayStr)
         IN  Max(0, IF idx = -1 THEN 0 ELSE idx)

Navigate(op, idx) ==
    /\ cardMounted
    /\ currentIndex' = idx
    /\ lastEvent' = Plain(op)
    /\ UNCHANGED <<cardMounted, courseId, days, timezone, cardIsLoading,
                   loads, schedVars, clockVars, shownBefore>>

PreviousDay == Navigate("previous", PrevIndex(currentIndex))
NextDay == Navigate("next", NextIndex(currentIndex))
Today == Navigate("today", TodayIndex(currentIndex))
Tomorrow == Navigate("tomorrow", TomorrowIndex(currentIndex))
Upcoming == Navigate("upcoming", UpcomingIndex(currentIndex))

(***************************************************************************)
(* Time passes.  SavedScheduleCard reads the clock on every load and       *)
(* click; CourseScheduler reads it only to fill an empty startDate, so the *)
(* clock runs in the behaviours of the card.                               *)
(***************************************************************************)
Tick ==
    /\ cardMounted
    /\ \E t \in Instants : Earlier(now, t) /\ now' = t
    /\ lastEvent' = Plain("tick")
    /\ UNCHANGED <<schedVars, cardVars, shownBefore>>

Next ==
    \/ SchedMount
    \/ ToggleIncludeWeekends
    \/ \E i \in ToggledWeekdays : HandleWeekdayToggle(i)
    \/ HandleSubmit
    \/ \E r \in Responses : GenerateSettled(r)
    \/ HandlePersist
    \/ \E r \in Responses : PersistSettled(r)
    \/ CardMount
    \/ \E c \in Courses : CourseIdChange(c)
    \/ \E c \in Courses, r \in Responses : LoadSettled(c, r)
    \/ PreviousDay
    \/ NextDay
    \/ Today
    \/ Tomorrow
    \/ Upcoming
    \/ Tick

Spec == Init /\ [][Next]_vars

\* CourseScheduler alone: the behaviours of Spec that mount it
NextScheduler ==
    \/ SchedMount
    \/ ToggleIncludeWeekends
    \/ \E i \in ToggledWeekdays : HandleWeekdayToggle(i)
    \/ HandleSubmit
    \/ \E r \in Responses : GenerateSettled(r)
    \/ HandlePersist
    \/ \E r \in Responses : PersistSettled(r)

SpecScheduler == Init /\ [][NextScheduler]_vars

\* CourseScheduler with all the handlers of its form.  The day lists of the
\* responses are short and one weekday button is clicked.
DraftResponses == {r \in Responses : Len(r.days) <= 1}

NextDraft ==
    \/ SchedMount
    \/ ToggleIncludeWeekends
    \/ HandleWeekdayToggle(0)
    \/ HandlePrevMonth
    \/ HandleNextMonth
    \/ \E d \in ClickedDates : HandleDateClick(d)
    \/ \E d \in ClickedDates \cup {NoDate} : HandleAddExcludedDate(d)
    \/ \E d \in ClickedDates : RemoveExcludedDate(d)
    \/ \E v \in StartDateInputs : SetStartDate(v)
    \/ \E v \in HoursInputs : SetHoursPerDay(v)
    \/ \E v \in DaysPerWeekInputs : SetDaysPerWeek(v)
    \/ \E v \in Timezones : SetTimezone(v)
    \/ HandleSubmit
    \/ \E r \in DraftResponses : GenerateSettled(r)
    \/ HandlePersist
    \/ \E r \in DraftResponses : PersistSettled(r)

SpecDraft == Init /\ [][NextDraft]_vars

(***************************************************************************)
(* Properties                                                              *)
(***************************************************************************)
Failed(e) == e.outcome \in {"reject", "error"}
SchedSettled(e) == e.op \in {"generateSettled", "persistSettled"}

\* C1: whenever includeWeekends is true, neither Sunday (0) nor Saturday (6)
\* is in excludeWeekdays.
C1_WeekendCoupling ==
    includeWeekends =>
        ~Includes(excludeWeekdays, 0) /\ ~Includes(excludeWeekdays, 6)

\* C2: after a generate call has failed (rejected fetch or non-2xx status),
\* scheduledTasks is what was displayed when the submit was started.
C2_FailedSubmitKeepsSchedule ==
    (lastEvent.op = "generateSettled" /\ Failed(lastEvent)) =>
        scheduledTasks = lastEvent.before

\* C3: there is no sequencing guard.  A response that arrives 2xx is what is
\* displayed once it has been handled, whether or not its request was
\* overlapped or superseded; so after overlapping requests have all settled
\* the display is that of the response handled last.
C3_LastResponseWins ==
    /\ (SchedSettled(lastEvent) /\ lastEvent.outcome = "ok") =>
           scheduledTasks = ScheduleMap(lastEvent.days)
    /\ (lastEvent.op = "loadSettled" /\ lastEvent.outcome = "ok") =>
           days = SortByDate(lastEvent.days)

\* C3 witness: the load issued for the previous courseId settled last, no
\* request is outstanding, and its days are what the card displays.
C3_Witness ==
    /\ lastEvent.op = "loadSettled" /\ lastEvent.outcome = "ok"
    /\ lastEvent.stale
    /\ Outstanding = 0
    /\ days # <<>>
    /\ days = SortByDate(lastEvent.days)

\* C4: while a call is outstanding its loading flag is true: isLoading for a
\* generate call, isSaving for a persist call, and the card's isLoading for
\* any GET it started.
C4_BusyWhileOutstanding ==
    /\ pending["generate"] > 0 => isLoading
    /\ pending["persist"] > 0 => isSaving
    /\ Outstanding > 0 => cardIsLoading

\* The state of the schedule view: the loading indicator, else whether there
\* is a day to show.
View(busy, n) == IF busy THEN "Loading" ELSE IF n = 0 THEN "Empty" ELSE "Loaded"
SchedulerView == View(isLoading \/ isSaving, Cardinality(DOMAIN scheduledTasks))
CardView == View(cardIsLoading, Len(days))
ScheduleView == IF cardMounted THEN CardView ELSE SchedulerView
CallStarted(e) == e.op \in {"submit", "persist", "cardMount", "courseIdChange"}
CallSettled(e) == SchedSettled(e) \/ e.op = "loadSettled"

\* One step of the view's state machine, as the specification draws it.
ViewStep ==
    LET e == lastEvent'
        v == ScheduleView
        w == ScheduleView'
    IN
    \* a call started from Empty or Loaded enters Loading
    /\ CallStarted(e) => w = "Loading"
    \* the view changes state only when a call starts, or out of Loading when
    \* a call settles: to Loaded on a response with at least one day, to
    \* Empty on a response with none, or back on a failure
    /\ v # w =>
           \/ CallStarted(e)
           \/ /\ v = "Loading" /\ CallSettled(e) /\ e.outcome = "ok"
              /\ w = IF Len(e.days) = 0 THEN "Empty" ELSE "Loaded"
           \/ v = "Loading" /\ CallSettled(e) /\ Failed(e)
    \* a failed call returns the view to the schedule that preceded the call
    /\ (e.op = "generateSettled" /\ Failed(e)) => scheduledTasks' = e.before
    /\ (e.op = "persistSettled" /\ Failed(e)) =>
           scheduledTasks' = scheduledTasks
    /\ (e.op = "loadSettled" /\ Failed(e)) => days' = days

\* C5: the schedule view moves Empty/Loaded -> Loading when a call starts,
\* Loading -> Loaded on a response with a day, Loading -> Empty only on a
\* response with no days, and back to the preceding schedule when a call
\* fails; for every load, generate and persist call.
C5_ViewStateMachine == [][ViewStep]_vars

\* C6: after a GET that ended with a non-2xx status the card shows the empty
\* schedule state, whatever it displayed before.
C6_FailedLoadShowsEmpty ==
    (lastEvent.op = "loadSettled" /\ lastEvent.outcome = "error") =>
        days = <<>>

\* One step of a failing persist or load: from the start of the call to its
\* catch block nothing but the busy flag changes.
FailureStep ==
    LET e == lastEvent' IN
    /\ (e.op = "persist" \/ (e.op = "persistSettled" /\ Failed(e))) =>
           UNCHANGED <<scheduledTasks, includeWeekends, excludeWeekdays,
                       isLoading>>
    /\ (e.op = "courseIdChange" \/ (e.op = "loadSettled" /\ Failed(e))) =>
           UNCHANGED <<days, timezone, currentIndex>>

IsAscending(s) == \A i, j \in DOMAIN s : i < j => s[i].date <= s[j].date
\* s and t hold the same days, each as many times
SameDays(s, t) ==
    /\ Len(s) = Len(t)
    /\ \A d \in Day : Cardinality({i \in DOMAIN s : s[i] = d})
                    = Cardinality({i \in DOMAIN t : t[i] = d})
HasDate(s, x) == \E i \in DOMAIN s : s[i].date = x
HasDateAfter(s, x) == \E i \in DOMAIN s : s[i].date > x
\* i (0-based) is the smallest index of s whose date is after x
FirstAfter(s, x, i) ==
    /\ i + 1 \in DOMAIN s
    /\ s[i + 1].date > x
    /\ \A j \in 1..i : s[j].date <= x
\* i (0-based) is the index of the first entry of s dated x
FirstAt(s, x, i) ==
    /\ i + 1 \in DOMAIN s
    /\ s[i + 1].date = x
    /\ \A j \in 1..i : s[j].date # x

\* C8: after a successful load the day list is the response's days in
\* ascending date order, and currentIndex is the index of today's entry if
\* there is one, else the smallest index dated after today, else 0; an empty
\* day list gives the empty state with currentIndex 0.
C8_InitialSelection ==
    (lastEvent.op = "loadSettled" /\ lastEvent.outcome = "ok") =>
        /\ IsAscending(days)
        /\ SameDays(days, lastEvent.days)
        /\ IF HasDate(days, TodayStr)
           THEN FirstAt(days, TodayStr, currentIndex)
           ELSE IF HasDateAfter(days, TodayStr)
           THEN FirstAfter(days, TodayStr, currentIndex)
           ELSE currentIndex = 0
        /\ days = <<>> => currentIndex = 0

\* C8 witness: the response's days arrived out of order, today is not among
\* them, and the first day after today, at index 1, is selected.
C8_Witness ==
    /\ lastEvent.op = "loadSettled" /\ lastEvent.outcome = "ok"
    /\ ~IsAscending(lastEvent.days)
    /\ ~HasDate(days, TodayStr)
    /\ currentIndex = 1

\* One click on Previous day or Next day.
ArrowStep ==
    LET e == lastEvent' IN
    /\ e.op = "previous" =>
           /\ currentIndex' =
                  IF currentIndex = 0 THEN currentIndex ELSE currentIndex - 1
           /\ UNCHANGED <<days, timezone, cardIsLoading>>
    /\ e.op = "next" =>
           /\ currentIndex' =
                  IF days = <<>> \/ currentIndex = Len(days) - 1
                  THEN currentIndex ELSE currentIndex + 1
           /\ UNCHANGED <<days, timezone, cardIsLoading>>

\* C9: previous and next move currentIndex by exactly one position and clamp
\* without wraparound: previous at index 0, and next at the last index or on
\* an empty day list, leave currentIndex unchanged.
C9_ArrowsClamp == [][ArrowStep]_vars

\* C9 witness: Next day was clicked and the last of two days is selected.
C9_Witness ==
    /\ lastEvent.op = "next"
    /\ Len(days) = 2 /\ currentIndex = 1

\* One click on Today, Tomorrow or Upcoming.  The clock does not move during
\* the click; tomorrow is the calendar date after today.
JumpTarget(op) ==
    IF op = "today" THEN
        IF HasDate(days, TodayStr)
        THEN CHOOSE i \in 0..Len(days) : FirstAt(days, TodayStr, i) ELSE 0
    ELSE IF op = "tomorrow" THEN
        IF HasDate(days, TodayStr + 1)
        THEN CHOOSE i \in 0..Len(days) : FirstAt(days, TodayStr + 1, i) ELSE 0
    ELSE
        IF HasDateAfter(days, TodayStr)
        THEN CHOOSE i \in 0..Len(days) : FirstAfter(days, TodayStr, i) ELSE 0

JumpStep ==
    LET e == lastEvent' IN
    e.op \in {"today", "tomorrow", "upcoming"} =>
        /\ UNCHANGED <<days, timezone, cardIsLoading, loads, courseId>>
        /\ currentIndex' =
               IF days = <<>> THEN currentIndex ELSE JumpTarget(e.op)

\* C10: with a non-empty day list Today selects the entry dated today,
\* Tomorrow the entry dated tomorrow, Upcoming the first entry dated after
\* today, each index 0 when there is no such entry; with an empty day list
\* the three buttons change nothing.
C10_JumpButtons == [][JumpStep]_vars


NoRepeat(s) == \A i, j \in 1..Len(s) : s[i] = s[j] => i = j

\* C11: after the Include Weekends switch is toggled on, excludeWeekdays
\* contains neither 0 nor 6; after it is toggled off, excludeWeekdays
\* contains both 0 and 6; in both cases no weekday index occurs twice.
C11_WeekendsSwitch ==
    lastEvent.op = "toggleWeekends" =>
        /\ includeWeekends =>
               ~Includes(excludeWeekdays, 0) /\ ~Includes(excludeWeekdays, 6)
        /\ ~includeWeekends =>
               Includes(excludeWeekdays, 0) /\ Includes(excludeWeekdays, 6)
        /\ NoRepeat(excludeWeekdays)

\* the switch was toggled off while Sunday was excluded already
C11_Witness ==
    /\ lastEvent.op = "toggleWeekends" /\ ~includeWeekends
    /\ excludeWeekdays = <<1, 0, 6>>


\* One click on a weekday button, seen from includeWeekends.
WeekdayIncludeStep ==
    LET e == lastEvent' IN
    e.op = "toggleWeekday" =>
        includeWeekends' =
            IF e.day \in {0, 6} /\ Includes(excludeWeekdays, e.day) THEN TRUE
            ELSE includeWeekends

\* C12: a click on the button of Sunday (0) or Saturday (6) while that day is
\* excluded leaves includeWeekends true; a click on it while the day is not
\* excluded leaves includeWeekends as it was; a click on the button of a
\* weekday 1..5 leaves includeWeekends as it was.
C12_WeekendDayAsymmetry == [][WeekdayIncludeStep]_vars

\* Saturday was excluded by its button and includeWeekends is still true
C12_Witness ==
    /\ lastEvent.op = "toggleWeekday" /\ lastEvent.day = 6
    /\ Includes(excludeWeekdays, 6) /\ includeWeekends


\* the operations of CourseScheduler that call the backend, with their
\* continuations
CallOps == {"submit", "generateSettled", "persist", "persistSettled"}
\* the handlers that edit the constraints of the form
ConstraintOps ==
    {"toggleWeekends", "toggleWeekday", "dateClick", "addExcludedDate",
     "removeExcludedDate", "startDate", "hoursPerDay", "daysPerWeek",
     "timezone"}
MonthOps == {"prevMonth", "nextMonth"}

\* One step of a handler other than submit and persist.
FormStep ==
    LET e == lastEvent' IN
    /\ e.op \notin CallOps =>
           UNCHANGED <<scheduledTasks, isLoading, isSaving, pending>>
    /\ e.op \in ConstraintOps => UNCHANGED <<hasCourseId, currentDate>>
    /\ e.op \in MonthOps =>
           UNCHANGED <<hasCourseId, includeWeekends, excludeWeekdays,
                       startDate, excludeDates, hoursPerDay, daysPerWeek,
                       formTimezone>>

SettleOps == {"generateSettled", "persistSettled", "loadSettled"}
\* a 2xx response with zero days
EmptyResults == {r \in OkResponses : r.days = <<>>}
EmptyResult(e) == e.outcome = "ok" /\ e.days = <<>>

\* what the continuation `op`, run in this state on the response r, leaves
\* in the state that depends on the response
AfterCall(op, r, stale) ==
    IF op = "loadSettled"
    THEN <<LoadedDays(days, r, stale), LoadedTimezone(timezone, r, stale),
           LoadedIndex(currentIndex, r, stale, TodayStr)>>
    ELSE <<SettledTasks(scheduledTasks, r, stale)>>

\* the step that lastEvent' describes left what the continuation would have
\* left on every response of rs
SameAsOn(rs) ==
    LET e == lastEvent' IN
    \A r \in rs :
        AfterCall(e.op, r, e.stale) =
            IF e.op = "loadSettled" THEN <<days', timezone', currentIndex'>>
            ELSE <<scheduledTasks'>>

ThreeOutcomesStep ==
    LET e == lastEvent' IN
    (e.op \in SettleOps /\ (Failed(e) \/ EmptyResult(e))) =>
        SameAsOn(FailResponses \cup EmptyResults)

\* C14 as stated: whichever of NetworkFailure, HttpError and EmptyResult a
\* load, generate or persist call ends with, the component state after the
\* call is the same.
C14_ThreeOutcomesAlike == [][ThreeOutcomesStep]_vars

TwoFailuresStep ==
    LET e == lastEvent' IN
    /\ (e.op \in SettleOps /\ Failed(e)) => SameAsOn(FailResponses)
    /\ (e.op \in {"generateSettled", "persistSettled"} /\ EmptyResult(e)) =>
           scheduledTasks' = EmptySchedule
    /\ (e.op = "loadSettled" /\ EmptyResult(e)) =>
           days' = <<>> /\ currentIndex' = 0

\* C14 amended: NetworkFailure and HttpError are handled identically: the
\* component state after a load, generate or persist call is the same
\* whichever of the two occurred.  An EmptyResult is stored as any 2xx
\* response is: it leaves scheduledTasks empty, or days empty and
\* currentIndex 0.
C14_FailuresAlike == [][TwoFailuresStep]_vars

\* a persist call got a non-2xx status while a schedule was displayed
C14_Witness ==
    /\ lastEvent.op = "persistSettled" /\ lastEvent.outcome = "error"
    /\ scheduledTasks # EmptySchedule


\* C15: the request that Save Schedule sends is the request that a submit
\* from the same constraint state sends, with persist=true added: the same
\* body of start_date, include_weekends, exclude_weekdays, exclude_dates,
\* hours_per_day, days_per_week and timezone.
C15_PersistSameAsSubmit ==
    lastEvent.op = "persist" =>
        lastEvent.request = <<[SubmitRequest EXCEPT !.persist = TRUE]>>


\* C16: after a successful generate or persist response the keys of
\* scheduledTasks are exactly the dates of the days of that response and
\* each key maps to a day of that response with that date: nothing of an
\* earlier schedule remains.
C16_IndexRebuilt ==
    (SchedSettled(lastEvent) /\ lastEvent.outcome = "ok") =>
        /\ DOMAIN scheduledTasks =
               {lastEvent.days[i].date : i \in DOMAIN lastEvent.days}
        /\ \A k \in DOMAIN scheduledTasks :
               /\ scheduledTasks[k].date = k
               /\ \E i \in DOMAIN lastEvent.days :
                      lastEvent.days[i] = scheduledTasks[k]

\* a persist response of two days is displayed
C16_Witness ==
    /\ lastEvent.op = "persistSettled" /\ lastEvent.outcome = "ok"
    /\ Len(lastEvent.days) = 2
    /\ Cardinality(DOMAIN scheduledTasks) = 2


OneCallStep ==
    LET e == lastEvent' IN
    /\ e.op = "submit" => ~isLoading
    /\ e.op = "persist" => ~isSaving
    /\ pending'["generate"] <= 1 /\ pending'["persist"] <= 1

\* C17: at most one generate call and at most one persist call of
\* CourseScheduler is outstanding: no generate call starts while isLoading
\* is true and no persist call starts while isSaving is true.  A generate
\* call and a persist call may be outstanding together.
C17_OneCallOfEachKind == [][OneCallStep]_vars

\* a generate call and a persist call are outstanding together
C17_Witness ==
    /\ pending["generate"] = 1 /\ pending["persist"] = 1
    /\ isLoading /\ isSaving


\* C18: in SavedScheduleCard, whatever loads have succeeded, failed or
\* overlapped and whatever buttons were clicked,
\* 0 <= currentIndex <= max(0, days.length - 1); so days[currentIndex]
\* exists whenever days is not empty.
C18_IndexInRange ==
    /\ 0 <= currentIndex
    /\ currentIndex <= Max(0, Len(days) - 1)
    /\ days # <<>> => currentIndex + 1 \in DOMAIN days

\* a superseded load of two past days settled last: no day is today or
\* later, and the first day is selected
C18_Witness ==
    /\ lastEvent.op = "loadSettled" /\ lastEvent.outcome = "ok"
    /\ lastEvent.stale
    /\ Len(days) = 2 /\ currentIndex = 0
    /\ \A i \in DOMAIN days : days[i].date < TodayStr


Weekdays == 0..6

\* One click on the button of weekday i flips i and nothing else.
WeekdayFlipStep ==
    LET e == lastEvent' IN
    e.op = "toggleWeekday" =>
        \A j \in Weekdays :
            Includes(excludeWeekdays', j) =
                IF j = e.day THEN ~Includes(excludeWeekdays, j)
                ELSE Includes(excludeWeekdays, j)

\* C19 as stated: a click on the button of weekday i flips the membership of
\* i in excludeWeekdays and leaves the membership of every other weekday as
\* it was, the effects of the click included; so re-including Sunday while
\* includeWeekends is false leaves Saturday excluded, and re-including
\* Saturday leaves Sunday excluded.
C19_ToggleFlipsOnlyItsDay == [][WeekdayFlipStep]_vars

\* the click turns includeWeekends from false to true
ForcesWeekends(dayIndex) ==
    /\ dayIndex \in {0, 6} /\ Includes(excludeWeekdays, dayIndex)
    /\ ~includeWeekends

WeekdayFlipOrWeekendStep ==
    LET e == lastEvent' IN
    e.op = "toggleWeekday" =>
        \A j \in Weekdays :
            Includes(excludeWeekdays', j) =
                IF j = e.day THEN ~Includes(excludeWeekdays, j)
                ELSE IF ForcesWeekends(e.day) /\ j \in {0, 6} THEN FALSE
                ELSE Includes(excludeWeekdays, j)

\* C19 amended: a click on the button of weekday i flips the membership of i
\* in excludeWeekdays and leaves the membership of every other weekday as
\* it was, except that re-including Sunday or Saturday while
\* includeWeekends is false turns includeWeekends on, whose effect takes
\* both 0 and 6 out of excludeWeekdays: the other weekend day is
\* re-included with the clicked one.
C19_ToggleFlipsItsDay == [][WeekdayFlipOrWeekendStep]_vars

\* Sunday was re-included, Saturday is not excluded, Monday still is
C19_Witness ==
    /\ lastEvent.op = "toggleWeekday" /\ lastEvent.day = 0
    /\ includeWeekends
    /\ ~Includes(excludeWeekdays, 0) /\ ~Includes(excludeWeekdays, 6)
    /\ Includes(excludeWeekdays, 1)

=============================================================================
